---- MODULE Spec2Model ----
(***************************************************************************)
(* Model of the multi-screen marquee sync server (src/server.js): the      *)
(* player registry (a Map in insertion order), the controller set, the     *)
(* per-connection closure variables role and playerId, the ws readyState   *)
(* of every connection, and the handlers of the 'message' and 'close'      *)
(* events and of the tick timer.  Every handler runs to completion (Node's *)
(* single-threaded event loop), so each is one action.                     *)
(*                                                                         *)
(* JavaScript values are tagged records, so that undefined, null, NaN,     *)
(* numbers and strings can be compared with each other.  A string that is  *)
(* parsed (actualWidth) is a sequence of one-character strings.            *)
(***************************************************************************)
EXTENDS Integers, Sequences, FiniteSets, TLC

\* ------------------------------------------------------------------ bounds
\* Connections accepted in a run from the start, moments of the clock, handlers
\* run, and players registered in the states quickApply is applied to.
NConns == 3
MaxClock == 1
MaxSteps == 3
MaxPlayers == 4
\* Players and controllers registered in the states one handler is applied to.
CmdPlayers == 2
CmdControllers == 2

\* The connections there can be: enough for MaxPlayers players, two
\* controllers, and for CmdPlayers players, CmdControllers controllers and a
\* connection without a role.
Conns == 1..(MaxPlayers + 2)

\* ------------------------------------------------------- JavaScript values
Undef == [t |-> "undefined"]
Null == [t |-> "null"]
NaN == [t |-> "NaN"]
Num(n) == [t |-> "number", v |-> n]
Str(cs) == [t |-> "string", v |-> cs]

IsNum(x) == x.t = "number"

\* ToBoolean: undefined, null, NaN, 0 and "" are falsy.
Truthy(x) ==
  CASE x.t = "undefined" -> FALSE
    [] x.t = "null" -> FALSE
    [] x.t = "NaN" -> FALSE
    [] x.t = "number" -> x.v # 0
    [] x.t = "string" -> x.v # <<>>
    [] OTHER -> TRUE

\* a ?? b
Nullish(x) == x.t \in {"undefined", "null"}
Coalesce(a, b) == IF Nullish(a) THEN b ELSE a

\* a !== b: NaN differs from everything, itself included.
StrictNotEqual(a, b) == a.t = "NaN" \/ b.t = "NaN" \/ a # b

Digits == <<"0", "1", "2", "3", "4", "5", "6", "7", "8", "9">>
IsDigit(ch) == \E i \in 1..10 : Digits[i] = ch
DigitValue(ch) == (CHOOSE i \in 1..10 : Digits[i] = ch) - 1

RECURSIVE SkipSpaces(_)
SkipSpaces(cs) ==
  IF cs # <<>> /\ Head(cs) = " " THEN SkipSpaces(Tail(cs)) ELSE cs

\* The value of the longest prefix of digits of cs, continuing from acc.
RECURSIVE DigitsPrefix(_, _)
DigitsPrefix(cs, acc) ==
  IF cs # <<>> /\ IsDigit(Head(cs))
  THEN DigitsPrefix(Tail(cs), 10 * acc + DigitValue(Head(cs)))
  ELSE acc

\* parseInt of a string (radix 10): leading blanks, an optional sign, then
\* the longest prefix of digits; NaN when there is no digit.
ParseIntChars(cs) ==
  LET s == SkipSpaces(cs)
      neg == s # <<>> /\ Head(s) = "-"
      body == IF s # <<>> /\ Head(s) \in {"-", "+"} THEN Tail(s) ELSE s
  IN IF body = <<>> \/ ~IsDigit(Head(body)) THEN NaN
     ELSE Num((IF neg THEN -1 ELSE 1) * DigitsPrefix(body, 0))

\* parseInt(x): x is converted to a string first; an integer prints as its
\* own digits, so parseInt gives it back.
ParseInt(x) ==
  CASE x.t = "number" -> x
    [] x.t = "string" -> ParseIntChars(x.v)
    [] OTHER -> NaN

\* msg.actualWidth ? parseInt(msg.actualWidth) : null
ParseWidth(x) == IF Truthy(x) THEN ParseInt(x) ELSE Null

\* JSON.stringify of a value: NaN is written as null.
JsonValue(x) == IF x.t = "NaN" THEN Null ELSE x

\* ----------------------------------------------------------------- state
VARIABLES
  clock,        \* Date.now()
  startAt,      \* const startAt = Date.now()
  players,      \* the Map playerId -> entry, as the sequence of its entries in insertion order
  controllers,  \* the Set of controller connections
  readyState,   \* ws.readyState of every connection ("NONE": not yet accepted)
  receiving,    \* the connections whose 'message' events can still fire
  role,         \* the closure variable role of every connection
  playerId,     \* the closure variable playerId of every connection ("" is null)
  sent,         \* the ws.send calls of the last handler, per connection
  last,         \* the event the last handler ran for
  steps,        \* number of handlers run
  running       \* the process has not been ended by an uncaught exception

vars == <<clock, startAt, players, controllers, readyState, receiving, role,
          playerId, sent, last, steps, running>>

\* ------------------------------------------------------ the players Map
Has(ps, id) == \E i \in DOMAIN ps : ps[i].playerId = id
IndexOf(ps, id) == CHOOSE i \in DOMAIN ps : ps[i].playerId = id
Get(ps, id) == ps[IndexOf(ps, id)]
\* Map.set keeps the position of a key that is already present.
MapSet(ps, id, e) ==
  IF Has(ps, id) THEN [ps EXCEPT ![IndexOf(ps, id)] = e] ELSE Append(ps, e)
MapDelete(ps, id) == SelectSeq(ps, LAMBDA e : e.playerId # id)

Config(sc, si, off) ==
  [t |-> "object", screenCount |-> sc, screenIndex |-> si, offsetPx |-> off]
DefaultConfig == Config(Num(2), Num(1), Num(0))

\* `player-${Date.now()}`
GenId(now) == "player-" \o ToString(now)

\* Array.prototype.sort with (a, b) => a.connectedAt - b.connectedAt is
\* stable: x goes after every element that does not compare greater.
RECURSIVE InsertSorted(_, _)
InsertSorted(sorted, x) ==
  IF sorted = <<>> THEN <<x>>
  ELSE IF sorted[Len(sorted)].connectedAt - x.connectedAt > 0
       THEN Append(InsertSorted(SubSeq(sorted, 1, Len(sorted) - 1), x),
                   sorted[Len(sorted)])
       ELSE Append(sorted, x)

RECURSIVE SortByConnectedAt(_)
SortByConnectedAt(list) ==
  IF list = <<>> THEN <<>>
  ELSE InsertSorted(SortByConnectedAt(SubSeq(list, 1, Len(list) - 1)),
                    list[Len(list)])

getPlayerList(ps) ==
  SortByConnectedAt([i \in DOMAIN ps |->
    [playerId |-> ps[i].playerId, config |-> ps[i].config,
     actualWidth |-> ps[i].actualWidth, connectedAt |-> ps[i].connectedAt]])

\* ------------------------------------------------------------- sending
NoSent == [c \in Conns |-> <<>>]

\* ws.send(JSON.stringify(m)) on connection c; open records whether the
\* transport was open at the call (a send on a closing or closed transport
\* delivers nothing).
Send(out, rs, c, m) ==
  [out EXCEPT ![c] = Append(@, [msg |-> m, open |-> rs[c] = "OPEN"])]

\* if (ws.readyState === WebSocket.OPEN) ws.send(...)
SendIfOpen(out, rs, c, m) == IF rs[c] = "OPEN" THEN Send(out, rs, c, m) ELSE out

broadcastToControllers(out, rs, ctrls, m) ==
  [c \in Conns |-> IF c \in ctrls THEN SendIfOpen(out, rs, c, m)[c] ELSE out[c]]

RECURSIVE broadcastToPlayers(_, _, _, _)
broadcastToPlayers(out, rs, ps, m) ==
  IF ps = <<>> THEN out
  ELSE broadcastToPlayers(SendIfOpen(out, rs, Head(ps).ws, m), rs, Tail(ps), m)

JsonConfig(cfg) ==
  [t |-> "object", screenCount |-> JsonValue(cfg.screenCount),
   screenIndex |-> JsonValue(cfg.screenIndex), offsetPx |-> JsonValue(cfg.offsetPx)]

JsonList(list) ==
  [i \in DOMAIN list |->
    [playerId |-> list[i].playerId, config |-> JsonConfig(list[i].config),
     actualWidth |-> JsonValue(list[i].actualWidth),
     connectedAt |-> list[i].connectedAt]]

PlayersMsg(ps) == [type |-> "players", list |-> JsonList(getPlayerList(ps))]

notifyPlayersUpdate(out, rs, ctrls, ps) ==
  broadcastToControllers(out, rs, ctrls, PlayersMsg(ps))

ConfigMsg(cfg) ==
  [type |-> "config", screenCount |-> JsonValue(cfg.screenCount),
   screenIndex |-> JsonValue(cfg.screenIndex), offsetPx |-> JsonValue(cfg.offsetPx)]

\* ---------------------------------------------------------- the inputs
PlayerIds == {"p1", "p2"}
UnknownRole == "viewer"

PlayerHello(id, w, cfg) ==
  [type |-> "hello", role |-> "player", playerId |-> id, actualWidth |-> w,
   config |-> cfg]
OtherHello(r) ==
  [type |-> "hello", role |-> r, playerId |-> "", actualWidth |-> Undef,
   config |-> Undef]
ResetStartAtMsg == [type |-> "resetStartAt"]

QuickApplyMsg == [type |-> "quickApply"]
SetConfigMsg(id, sc, si, off) ==
  [type |-> "setConfig", playerId |-> id, screenCount |-> sc, screenIndex |-> si,
   offsetPx |-> off]
ReportWidthMsg(w) == [type |-> "reportWidth", actualWidth |-> w]
UpdateMarqueeMsg(speed) ==
  [type |-> "updateMarquee", text |-> Str(<<"h", "i">>), speed |-> speed]

\* The hello messages of the runs from the start: a named or an unnamed player,
\* a controller, an unknown role, no role.
HelloMsgs ==
  {PlayerHello(id, Undef, Undef) : id \in PlayerIds \cup {""}}
  \cup {OtherHello(r) : r \in {"controller", UnknownRole, "undefined"}}

\* ------------------------------------------------------------- actions
Init ==
  /\ clock = 0
  /\ startAt = 0
  /\ players = <<>>
  /\ controllers = {}
  /\ readyState = [c \in Conns |-> "NONE"]
  /\ receiving = {}
  /\ role = [c \in Conns |-> "null"]
  /\ playerId = [c \in Conns |-> ""]
  /\ sent = NoSent
  /\ last = [op |-> "start", conn |-> 0, msg |-> Undef]
  /\ steps = 0
  /\ running = TRUE

\* Time passes between two events.
AdvanceClock ==
  /\ running
  /\ clock < MaxClock
  /\ clock' = clock + 1
  /\ sent' = NoSent
  /\ last' = [op |-> "clock", conn |-> 0, msg |-> Undef]
  /\ UNCHANGED <<startAt, players, controllers, readyState, receiving, role,
                 playerId, steps, running>>

\* wss.on('connection').  Accepting a connection changes nothing a handler of
\* another connection reads, so connections are numbered in the order of their
\* first event: c is accepted once every connection before it has declared a
\* role or has left OPEN.
Connect(c) ==
  /\ running
  /\ c <= NConns
  /\ readyState[c] = "NONE"
  /\ \A d \in Conns : d < c =>
        /\ readyState[d] # "NONE"
        /\ readyState[d] # "OPEN" \/ role[d] # "null"
  /\ readyState' = [readyState EXCEPT ![c] = "OPEN"]
  /\ receiving' = receiving \cup {c}
  /\ role' = [role EXCEPT ![c] = "null"]
  /\ playerId' = [playerId EXCEPT ![c] = ""]
  /\ sent' = NoSent
  /\ last' = [op |-> "connect", conn |-> c, msg |-> Undef]
  /\ UNCHANGED <<clock, startAt, players, controllers, steps, running>>

\* The handler of 'message' starts: the message m arrives on connection c.
Arrives(c, m) ==
  /\ running
  /\ c \in receiving
  /\ steps < MaxSteps
  /\ steps' = steps + 1
  /\ last' = [op |-> "message", conn |-> c, msg |-> m]
  /\ UNCHANGED <<clock, startAt, receiving, running>>

\* The entry players.set stores for a player hello m on connection c at time now.
NewEntry(c, id, m, now) ==
  [playerId |-> id, ws |-> c,
   config |-> IF Truthy(m.config) THEN m.config ELSE DefaultConfig,
   actualWidth |-> ParseWidth(m.actualWidth),
   connectedAt |-> now]

HelloPlayer(c, m) ==
  LET id == IF m.playerId # "" THEN m.playerId ELSE GenId(clock)
      rs1 == IF Has(players, id) /\ readyState[Get(players, id).ws] = "OPEN"
             THEN [readyState EXCEPT ![Get(players, id).ws] = "CLOSING"]
             ELSE readyState
      ps1 == MapSet(players, id, NewEntry(c, id, m, clock))
      init == [type |-> "init", startAt |-> startAt, now |-> clock,
               playerId |-> id, config |-> JsonConfig(Get(ps1, id).config)]
  IN /\ playerId' = [playerId EXCEPT ![c] = id]
     /\ readyState' = rs1
     /\ players' = ps1
     /\ sent' = notifyPlayersUpdate(Send(NoSent, rs1, c, init), rs1, controllers, ps1)
     /\ UNCHANGED controllers

HelloController(c) ==
  LET init == [type |-> "init", startAt |-> startAt, now |-> clock]
  IN /\ controllers' = controllers \cup {c}
     /\ sent' = Send(Send(NoSent, readyState, c, init), readyState, c,
                     PlayersMsg(players))
     /\ UNCHANGED <<players, readyState, playerId>>

\* case 'hello'
Hello(c, m) ==
  /\ Arrives(c, m)
  /\ role' = [role EXCEPT ![c] = m.role]
  /\ IF m.role = "player" THEN HelloPlayer(c, m)
     ELSE IF m.role = "controller" THEN HelloController(c)
     ELSE /\ sent' = NoSent
          /\ UNCHANGED <<players, controllers, readyState, playerId>>

\* The peer's close frame (or the loss of the socket) is seen: readyState
\* leaves OPEN and no further message is read; 'close' is emitted later.
PeerClose(c) ==
  /\ running
  /\ readyState[c] = "OPEN"
  /\ steps < MaxSteps
  /\ steps' = steps + 1
  /\ readyState' = [readyState EXCEPT ![c] = "CLOSING"]
  /\ receiving' = receiving \ {c}
  /\ sent' = NoSent
  /\ last' = [op |-> "peerClose", conn |-> c, msg |-> Undef]
  /\ UNCHANGED <<clock, startAt, players, controllers, role, playerId, running>>

\* ws.on('close')
CloseEvent(c) ==
  /\ running
  /\ readyState[c] = "CLOSING"
  /\ steps < MaxSteps
  /\ steps' = steps + 1
  /\ readyState' = [readyState EXCEPT ![c] = "CLOSED"]
  /\ receiving' = receiving \ {c}
  /\ last' = [op |-> "close", conn |-> c, msg |-> Undef]
  /\ IF role[c] = "player" /\ playerId[c] # ""
     THEN /\ players' = MapDelete(players, playerId[c])
          /\ sent' = notifyPlayersUpdate(NoSent, readyState', controllers, players')
          /\ UNCHANGED controllers
     ELSE IF role[c] = "controller"
     THEN /\ controllers' = controllers \ {c}
          /\ sent' = NoSent
          /\ UNCHANGED players
     ELSE /\ sent' = NoSent
          /\ UNCHANGED <<players, controllers>>
  /\ UNCHANGED <<clock, startAt, role, playerId, running>>

\* setConfig that replaces the layout by the fields supplied instead of merging.
SetConfig_Replace(c, m) ==
  /\ Arrives(c, m)
  /\ IF role[c] = "controller" /\ m.playerId # "" /\ Has(players, m.playerId)
     THEN LET player == Get(players, m.playerId)
              cfg == Config(m.screenCount, m.screenIndex, Coalesce(m.offsetPx, Num(0)))
              ps1 == MapSet(players, m.playerId, [player EXCEPT !.config = cfg])
          IN /\ players' = ps1
             /\ sent' = notifyPlayersUpdate(
                          SendIfOpen(NoSent, readyState, player.ws, ConfigMsg(cfg)),
                          readyState, controllers, ps1)
     ELSE /\ sent' = NoSent
          /\ UNCHANGED players
  /\ UNCHANGED <<controllers, readyState, role, playerId>>

\* setConfig that notifies the controllers before it stores the new layout.
SetConfig_StaleNotify(c, m) ==
  /\ Arrives(c, m)
  /\ IF role[c] = "controller" /\ m.playerId # "" /\ Has(players, m.playerId)
     THEN LET player == Get(players, m.playerId)
              cfg == Config(Coalesce(m.screenCount, player.config.screenCount),
                            Coalesce(m.screenIndex, player.config.screenIndex),
                            Coalesce(Coalesce(m.offsetPx, player.config.offsetPx), Num(0)))
              ps1 == MapSet(players, m.playerId, [player EXCEPT !.config = cfg])
          IN /\ players' = ps1
             /\ sent' = notifyPlayersUpdate(
                          SendIfOpen(NoSent, readyState, player.ws, ConfigMsg(cfg)),
                          readyState, controllers, players)
     ELSE /\ sent' = NoSent
          /\ UNCHANGED players
  /\ UNCHANGED <<controllers, readyState, role, playerId>>

\* setConfig that pushes the new layout to every player.
SetConfig_Broadcast(c, m) ==
  /\ Arrives(c, m)
  /\ IF role[c] = "controller" /\ m.playerId # "" /\ Has(players, m.playerId)
     THEN LET player == Get(players, m.playerId)
              cfg == Config(Coalesce(m.screenCount, player.config.screenCount),
                            Coalesce(m.screenIndex, player.config.screenIndex),
                            Coalesce(Coalesce(m.offsetPx, player.config.offsetPx), Num(0)))
              ps1 == MapSet(players, m.playerId, [player EXCEPT !.config = cfg])
          IN /\ players' = ps1
             /\ sent' = notifyPlayersUpdate(
                          broadcastToPlayers(NoSent, readyState, ps1, ConfigMsg(cfg)),
                          readyState, controllers, ps1)
     ELSE /\ sent' = NoSent
          /\ UNCHANGED players
  /\ UNCHANGED <<controllers, readyState, role, playerId>>

\* case 'setConfig'
SetConfig(c, m) ==
  /\ Arrives(c, m)
  /\ IF role[c] = "controller" /\ m.playerId # "" /\ Has(players, m.playerId)
     THEN LET player == Get(players, m.playerId)
              cfg == Config(Coalesce(m.screenCount, player.config.screenCount),
                            Coalesce(m.screenIndex, player.config.screenIndex),
                            Coalesce(Coalesce(m.offsetPx, player.config.offsetPx), Num(0)))
              ps1 == MapSet(players, m.playerId, [player EXCEPT !.config = cfg])
          IN /\ players' = ps1
             /\ sent' = notifyPlayersUpdate(
                          SendIfOpen(NoSent, readyState, player.ws, ConfigMsg(cfg)),
                          readyState, controllers, ps1)
     ELSE /\ sent' = NoSent
          /\ UNCHANGED players
  /\ UNCHANGED <<controllers, readyState, role, playerId>>

\* The loop of quickApply with the width added before the offset is assigned.
RECURSIVE QuickApplyLoop_OwnWidth(_, _, _, _)
QuickApplyLoop_OwnWidth(list, idx, rs, acc) ==
  IF idx > Len(list) THEN acc
  ELSE LET player == Get(acc.ps, list[idx].playerId)
           cum == IF Truthy(player.actualWidth)
                  THEN acc.cumulativeOffset + player.actualWidth.v
                  ELSE acc.cumulativeOffset
           cfg == Config(Num(Len(list)), Num(idx), Num(cum))
       IN QuickApplyLoop_OwnWidth(list, idx + 1, rs,
            [ps |-> MapSet(acc.ps, player.playerId, [player EXCEPT !.config = cfg]),
             out |-> SendIfOpen(acc.out, rs, player.ws, ConfigMsg(cfg)),
             cumulativeOffset |-> cum])

\* list.forEach((item, idx) => ...) of quickApply, from item idx on: acc holds
\* the Map, the sends and cumulativeOffset so far.
RECURSIVE QuickApplyLoop(_, _, _, _)
QuickApplyLoop(list, idx, rs, acc) ==
  IF idx > Len(list) THEN acc
  ELSE LET player == Get(acc.ps, list[idx].playerId)
           cfg == Config(Num(Len(list)), Num(idx), Num(acc.cumulativeOffset))
       IN QuickApplyLoop(list, idx + 1, rs,
            [ps |-> MapSet(acc.ps, player.playerId, [player EXCEPT !.config = cfg]),
             out |-> SendIfOpen(acc.out, rs, player.ws, ConfigMsg(cfg)),
             cumulativeOffset |->
               IF Truthy(player.actualWidth)
               THEN acc.cumulativeOffset + player.actualWidth.v
               ELSE acc.cumulativeOffset])

\* quickApply guarded by role !== 'player' instead of role === 'controller'.
QuickApply_NotPlayer(c, m) ==
  /\ Arrives(c, m)
  /\ IF role[c] # "player"
     THEN LET res == QuickApplyLoop(getPlayerList(players), 1, readyState,
                       [ps |-> players, out |-> NoSent, cumulativeOffset |-> 0])
          IN /\ players' = res.ps
             /\ sent' = notifyPlayersUpdate(res.out, readyState, controllers, res.ps)
     ELSE /\ sent' = NoSent
          /\ UNCHANGED players
  /\ UNCHANGED <<controllers, readyState, role, playerId>>

\* case 'quickApply'
QuickApply(c, m) ==
  /\ Arrives(c, m)
  /\ IF role[c] = "controller"
     THEN LET res == QuickApplyLoop(getPlayerList(players), 1, readyState,
                       [ps |-> players, out |-> NoSent, cumulativeOffset |-> 0])
          IN /\ players' = res.ps
             /\ sent' = notifyPlayersUpdate(res.out, readyState, controllers, res.ps)
     ELSE /\ sent' = NoSent
          /\ UNCHANGED players
  /\ UNCHANGED <<controllers, readyState, role, playerId>>

DEFAULT_SPEED_PX_SEC == 120

\* updateMarquee honoured from every connection that has declared a role.
UpdateMarquee_AnyRole(c, m) ==
  /\ Arrives(c, m)
  /\ sent' = IF role[c] # "null"
             THEN broadcastToPlayers(NoSent, readyState, players,
                    [type |-> "marquee", text |-> m.text,
                     speed |-> IF Truthy(m.speed) THEN m.speed
                               ELSE Num(DEFAULT_SPEED_PX_SEC),
                     styles |-> Null, images |-> <<>>])
             ELSE NoSent
  /\ UNCHANGED <<players, controllers, readyState, role, playerId>>

\* case 'updateMarquee'
UpdateMarquee(c, m) ==
  /\ Arrives(c, m)
  /\ sent' = IF role[c] = "controller"
             THEN broadcastToPlayers(NoSent, readyState, players,
                    [type |-> "marquee", text |-> m.text,
                     speed |-> IF Truthy(m.speed) THEN m.speed
                               ELSE Num(DEFAULT_SPEED_PX_SEC),
                     styles |-> Null, images |-> <<>>])
             ELSE NoSent
  /\ UNCHANGED <<players, controllers, readyState, role, playerId>>

\* case 'reportWidth'
ReportWidth(c, m) ==
  /\ Arrives(c, m)
  /\ IF role[c] = "player" /\ playerId[c] # "" /\ Has(players, playerId[c])
     THEN LET player == Get(players, playerId[c])
              oldWidth == player.actualWidth
              newWidth == ParseWidth(m.actualWidth)
              ps1 == MapSet(players, playerId[c], [player EXCEPT !.actualWidth = newWidth])
          IN /\ players' = ps1
             /\ sent' = IF StrictNotEqual(oldWidth, newWidth)
                        THEN notifyPlayersUpdate(NoSent, readyState, controllers, ps1)
                        ELSE NoSent
     ELSE /\ sent' = NoSent
          /\ UNCHANGED players
  /\ UNCHANGED <<controllers, readyState, role, playerId>>

\* case 'resetStartAt': startAt is a const; only the message carries the new time.
ResetStartAt(c, m) ==
  /\ Arrives(c, m)
  /\ sent' = IF role[c] = "controller"
             THEN LET reset == [type |-> "reset", startAt |-> clock, now |-> clock]
                  IN broadcastToControllers(
                       broadcastToPlayers(NoSent, readyState, players, reset),
                       readyState, controllers, reset)
             ELSE NoSent
  /\ UNCHANGED <<players, controllers, readyState, role, playerId>>

\* A message whose type is no case of the switch.
UnknownType(c, m) ==
  /\ Arrives(c, m)
  /\ sent' = NoSent
  /\ UNCHANGED <<players, controllers, readyState, role, playerId>>

\* Payloads that are no message object: text that is not JSON, the JSON text
\* null, a JSON number.
RawPayloads == {"{", "null", "5"}

\* JSON.parse(raw) for these payloads: it throws, or returns the value.
JsonParse(raw) ==
  IF raw = "null" THEN [threw |-> FALSE, value |-> Null]
  ELSE IF raw = "5" THEN [threw |-> FALSE, value |-> Num(5)]
  ELSE [threw |-> TRUE, value |-> Undef]

\* ws.on('message') for such a payload.  A SyntaxError of JSON.parse is caught
\* and the handler returns.  msg.type of a number is undefined and matches no
\* case.  msg.type of null throws a TypeError outside the try block; nothing
\* catches it and the process ends: every socket is closed, no timer fires.
RawMessage(c, raw) ==
  /\ running
  /\ c \in receiving
  /\ steps < MaxSteps
  /\ steps' = steps + 1
  /\ last' = [op |-> "raw", conn |-> c, msg |-> [type |-> "raw", payload |-> raw]]
  /\ sent' = NoSent
  /\ LET parsed == JsonParse(raw)
     IN IF ~parsed.threw /\ Nullish(parsed.value)
        THEN /\ running' = FALSE
             /\ readyState' = [d \in Conns |->
                  IF readyState[d] = "NONE" THEN "NONE" ELSE "CLOSED"]
             /\ receiving' = {}
        ELSE UNCHANGED <<running, readyState, receiving>>
  /\ UNCHANGED <<clock, startAt, players, controllers, role, playerId>>

\* setInterval(..., TICK_INTERVAL_MS): the timer fires for as long as the
\* process runs.
Tick ==
  /\ running
  /\ last' = [op |-> "tick", conn |-> 0, msg |-> Undef]
  /\ LET tickMsg == [type |-> "tick", now |-> clock, startAt |-> startAt]
     IN sent' = broadcastToControllers(
                  broadcastToPlayers(NoSent, readyState, players, tickMsg),
                  readyState, controllers, tickMsg)
  /\ UNCHANGED <<clock, startAt, players, controllers, readyState, receiving,
                 role, playerId, steps, running>>

Next ==
  \/ AdvanceClock
  \/ \E c \in Conns : Connect(c)
  \/ \E c \in Conns, m \in HelloMsgs : Hello(c, m)
  \/ \E c \in Conns : ResetStartAt(c, ResetStartAtMsg)
  \/ \E c \in Conns : ReportWidth(c, ReportWidthMsg(Num(5)))
  \/ \E c \in Conns : PeerClose(c)
  \/ \E c \in Conns : CloseEvent(c)
  \/ Tick

Spec == Init /\ [][Next]_vars

\* ------------------------------------------- one handler, from a registry
\* The id of the i-th player.
Pid(i) == "p" \o ToString(i)

\* The state after np players said hello (the i-th on connection i, with the
\* message hello[i], at time t[i]), then nc controllers on the next
\* connections; the controller connections in both have then said hello
\* again, as the player "px"; the connections in closing have since been
\* closed by their peer, and one more connection has been accepted.  One more
\* handler runs from it.
RECURSIVE SecondHellos(_, _, _)
SecondHellos(ps, both, now) ==
  IF both = {} THEN ps
  ELSE LET c == CHOOSE d \in both : \A e \in both : d <= e
       IN SecondHellos(
            MapSet(ps, "px", NewEntry(c, "px", PlayerHello("px", Undef, Undef), now)),
            both \ {c}, now)

Populated(np, nc, hello, t, closing, both, now) ==
  /\ clock = now
  /\ startAt = 0
  /\ players = SecondHellos([i \in 1..np |-> NewEntry(i, Pid(i), hello[i], t[i])],
                            both, now)
  /\ controllers = (np + 1)..(np + nc)
  /\ readyState = [c \in Conns |->
       IF c \in closing THEN "CLOSING"
       ELSE IF c <= np + nc + 1 THEN "OPEN"
       ELSE "NONE"]
  /\ receiving = {c \in Conns : readyState[c] = "OPEN"}
  /\ role = [c \in Conns |->
       IF c <= np \/ c \in both THEN "player"
       ELSE IF c <= np + nc THEN "controller" ELSE "null"]
  /\ playerId = [c \in Conns |->
       IF c <= np THEN Pid(c) ELSE IF c \in both THEN "px" ELSE ""]
  /\ sent = NoSent
  /\ last = [op |-> "start", conn |-> 0, msg |-> Undef]
  /\ steps = MaxSteps - 1
  /\ running = TRUE

\* The width and the layout of a player's hello: neither, a number and a
\* layout without offsetPx, or a width that is no number.
CmdProfiles ==
  {<<Undef, Undef>>, <<Num(2), Config(Num(3), Num(2), Undef)>>,
   <<Str(<<"a">>), Undef>>}

InitCmd ==
  \E np \in 0..CmdPlayers, nc \in 1..CmdControllers, tie \in BOOLEAN :
    \E pr \in [1..np -> CmdProfiles],
       closing \in {{}} \cup {{c} : c \in 1..(np + nc)} :
      \E both \in {{}, closing \cap ((np + 1)..(np + nc))} :
        Populated(np, nc, [i \in 1..np |-> PlayerHello(Pid(i), pr[i][1], pr[i][2])],
                  [i \in 1..np |-> IF tie THEN 0 ELSE i - 1], closing, both,
                  IF tie THEN 0 ELSE np)

CmdHelloMsgs ==
  {PlayerHello(id, w, Undef) : id \in {Pid(1), "new"}, w \in {Undef, Num(2)}}
  \cup {OtherHello("controller")}
SetConfigMsgs ==
  {SetConfigMsg(id, sc, si, off) :
     id \in {Pid(1), Pid(2)}, sc \in {Undef, Num(4)},
     si \in {Undef, Num(3)}, off \in {Undef, Num(7)}}
  \cup {SetConfigMsg(id, Undef, Num(3), Undef) : id \in {"", "none"}}
  \cup {SetConfigMsg(Pid(1), Null, Num(3), Null),
        SetConfigMsg(Pid(1), Num(0), Num(0), Num(-7))}
ReportWidthMsgs ==
  {ReportWidthMsg(w) :
     w \in {Undef, Num(2), Num(5), Str(<<"2", "p", "x">>), Str(<<"a">>)}}
UpdateMarqueeMsgs == {UpdateMarqueeMsg(speed) : speed \in {Undef, Num(60)}}
UnknownMsgs == {[type |-> "ping"]}

NextCmd ==
  \/ \E c \in Conns, m \in CmdHelloMsgs : Hello(c, m)
  \/ \E c \in Conns, m \in SetConfigMsgs : SetConfig(c, m)
  \/ \E c \in Conns : QuickApply(c, QuickApplyMsg)
  \/ \E c \in Conns, m \in UpdateMarqueeMsgs : UpdateMarquee(c, m)
  \/ \E c \in Conns, m \in ReportWidthMsgs : ReportWidth(c, m)
  \/ \E c \in Conns : ResetStartAt(c, ResetStartAtMsg)
  \/ \E c \in Conns, m \in UnknownMsgs : UnknownType(c, m)
  \/ \E c \in Conns, raw \in RawPayloads : RawMessage(c, raw)
  \/ \E c \in Conns : CloseEvent(c)
  \/ Tick

SpecCmd == InitCmd /\ [][NextCmd]_vars

\* setInterval keeps the timer armed: a tick that can fire does fire.
SpecLive == SpecCmd /\ WF_vars(Tick)

\* ------------------------------------------------- quickApply, applied
QAWidths == {Undef, Num(800), Num(1080), Num(1920), Str(<<"a">>)}

InitQA ==
  \E np \in 1..MaxPlayers, tie \in BOOLEAN :
    \E w \in [1..np -> QAWidths] :
      Populated(np, 1, [i \in 1..np |-> PlayerHello(Pid(i), w[i], Undef)],
                [i \in 1..np |-> IF tie THEN 0 ELSE i - 1], {}, {},
                IF tie THEN 0 ELSE np)

NextQA == \E c \in Conns : QuickApply(c, QuickApplyMsg)

SpecQA == InitQA /\ [][NextQA]_vars

\* ------------------------------------------------------------ the claims
LivePlayer(c) == readyState[c] = "OPEN" /\ role[c] = "player" /\ playerId[c] # ""
IsMessage(l, type) == l.op = "message" /\ l.msg.type = type
Msgs(out, c, type) == {i \in DOMAIN out[c] : out[c][i].msg.type = type}

\* C2: a connection that registered an id and is still open with role player
\* and that id (it was neither closed nor superseded: superseding closes it)
\* owns the one registry entry of that id, also after the close event of the
\* connection it replaced has been processed.
C2_DuplicateHelloKeepsNewEntry ==
  \A c \in Conns :
    LivePlayer(c) =>
      /\ Has(players, playerId[c])
      /\ Get(players, playerId[c]).ws = c

\* C3: the tick or init message sent by the handler that runs right after a
\* resetStartAt carries the startAt the reset message carried.
C3_TickAfterResetCarriesNewAnchor ==
  [][\A c, d \in Conns :
       \A i \in Msgs(sent, c, "reset") :
         \A j \in Msgs(sent', d, "tick") \cup Msgs(sent', d, "init") :
           sent'[d][j].msg.startAt = sent[c][i].msg.startAt]_vars

IsSortedByConnectedAt(list) ==
  \A i, j \in DOMAIN list : i < j => list[i].connectedAt <= list[j].connectedAt

\* C4: the snapshot is sorted by ascending connectedAt, holds no entry of a
\* connection whose close event has been processed, and holds an entry for
\* every live player connection.
C4_SnapshotExactlyLive ==
  /\ IsSortedByConnectedAt(getPlayerList(players))
  /\ \A i \in DOMAIN players : readyState[players[i].ws] # "CLOSED"
  /\ \A c \in Conns : LivePlayer(c) => \E i \in DOMAIN players : players[i].ws = c

\* C5: a hello on a connection that has already declared the role player or
\* controller leaves the connection's role, the player registry and the
\* controller set as they were.
C5_RoleImmutable ==
  [][(IsMessage(last', "hello") /\ role[last'.conn] \in {"player", "controller"})
       => /\ role'[last'.conn] = role[last'.conn]
          /\ players' = players
          /\ controllers' = controllers]_vars

\* The sum of the widths that are numbers among the first k items of list.
RECURSIVE SumKnownWidths(_, _)
SumKnownWidths(list, k) ==
  IF k = 0 THEN 0
  ELSE SumKnownWidths(list, k - 1)
       + (IF IsNum(list[k].actualWidth) THEN list[k].actualWidth.v ELSE 0)

\* C1: after a controller's quickApply, the i-th player of the snapshot has
\* screenCount = the number of players, screenIndex = i and offsetPx = the sum
\* of the widths of the players before it whose width is known (a number).
C1_QuickApplyLayout ==
  (IsMessage(last, "quickApply") /\ role[last.conn] = "controller") =>
    LET list == getPlayerList(players)
    IN \A i \in DOMAIN list :
         list[i].config = Config(Num(Len(list)), Num(i),
                                 Num(SumKnownWidths(list, i - 1)))

\* C1's example: A(1920), B(1080), C(unknown), D(800) get 0, 1920, 3000, 3000.
C1_Witness ==
  /\ IsMessage(last, "quickApply")
  /\ role[last.conn] = "controller"
  /\ Len(players) = 4
  /\ [i \in 1..4 |-> players[i].actualWidth]
       = <<Num(1920), Num(1080), Null, Num(800)>>
  /\ [i \in 1..4 |-> players[i].config]
       = <<Config(Num(4), Num(1), Num(0)), Config(Num(4), Num(2), Num(1920)),
           Config(Num(4), Num(3), Num(3000)), Config(Num(4), Num(4), Num(3000))>>

NoPlayersMsg(out) == \A d \in Conns : Msgs(out, d, "players") = {}

\* C6: a message other than hello on a connection that has declared no role
\* changes neither the registry, the controller set, the anchor nor any
\* connection, and nothing is sent.
C6_NoEffectBeforeHello ==
  [][(last'.op = "message" /\ last'.msg.type # "hello" /\ role[last'.conn] = "null")
       => /\ players' = players
          /\ controllers' = controllers
          /\ startAt' = startAt
          /\ role' = role
          /\ playerId' = playerId
          /\ readyState' = readyState
          /\ sent' = NoSent]_vars

C6_Witness ==
  /\ IsMessage(last, "quickApply")
  /\ role[last.conn] = "null"
  /\ Len(players) >= 2
  /\ \E c \in controllers : readyState[c] = "OPEN"

SetConfigApplies(c, m) ==
  role[c] = "controller" /\ m.playerId # "" /\ Has(players, m.playerId)

\* What a setConfig step leaves alone: the other players, and the target's
\* connection, width and connectedAt.
SetConfigFrame(m) ==
  /\ Len(players') = Len(players)
  /\ \A i \in DOMAIN players :
       /\ players'[i].playerId = players[i].playerId
       /\ players'[i].ws = players[i].ws
       /\ players'[i].actualWidth = players[i].actualWidth
       /\ players'[i].connectedAt = players[i].connectedAt
       /\ players[i].playerId # m.playerId => players'[i].config = players[i].config

\* C7 as stated: every field of the layout that a setConfig on a registered
\* player does not supply keeps its prior value, and the other players are
\* unchanged.
C7_SetConfigKeepsUnsupplied ==
  [][(IsMessage(last', "setConfig") /\ SetConfigApplies(last'.conn, last'.msg))
       => LET m == last'.msg
              old == Get(players, m.playerId).config
              new == Get(players', m.playerId).config
          IN /\ Nullish(m.screenCount) => new.screenCount = old.screenCount
             /\ Nullish(m.screenIndex) => new.screenIndex = old.screenIndex
             /\ Nullish(m.offsetPx) => new.offsetPx = old.offsetPx
             /\ SetConfigFrame(m)]_vars

\* C7 as amended: screenCount and screenIndex keep their prior value when not
\* supplied; offsetPx keeps its prior value when not supplied, except that it
\* becomes 0 when the prior layout has no offsetPx; the other players are
\* unchanged.
C7_SetConfigMerges ==
  [][(IsMessage(last', "setConfig") /\ SetConfigApplies(last'.conn, last'.msg))
       => LET m == last'.msg
              old == Get(players, m.playerId).config
              new == Get(players', m.playerId).config
          IN /\ Nullish(m.screenCount) => new.screenCount = old.screenCount
             /\ Nullish(m.screenIndex) => new.screenIndex = old.screenIndex
             /\ Nullish(m.offsetPx) =>
                  new.offsetPx = IF Nullish(old.offsetPx) THEN Num(0)
                                 ELSE old.offsetPx
             /\ SetConfigFrame(m)]_vars

\* A setConfig supplying only screenIndex has changed the first of two players.
C7_Witness ==
  /\ IsMessage(last, "setConfig")
  /\ role[last.conn] = "controller"
  /\ last.msg = SetConfigMsg(Pid(1), Undef, Num(3), Undef)
  /\ Len(players) = 2
  /\ players[1].config = Config(Num(2), Num(3), Num(0))
  /\ players[2].config = Config(Num(3), Num(2), Undef)

\* C8: a reportWidth whose width equals the width stored for the player sends
\* no players message.
C8_SameWidthNoNotification ==
  [][(/\ IsMessage(last', "reportWidth")
      /\ role[last'.conn] = "player"
      /\ playerId[last'.conn] # ""
      /\ Has(players, playerId[last'.conn])
      /\ ParseWidth(last'.msg.actualWidth)
           = Get(players, playerId[last'.conn]).actualWidth)
       => NoPlayersMsg(sent')]_vars

\* C9: the close event of a connection that is in the controller set removes
\* it from the set, leaves the player registry unchanged and sends no players
\* message.
C9_ControllerCloseLeavesRegistry ==
  [][(last'.op = "close" /\ last'.conn \in controllers)
       => /\ controllers' = controllers \ {last'.conn}
          /\ players' = players
          /\ NoPlayersMsg(sent')]_vars

LastOf(S) == CHOOSE i \in S : \A j \in S : j <= i

\* C10: after a handler that changes the registry, and after every quickApply
\* of a controller, the last players list sent to each registered controller
\* whose transport is open is the snapshot of the new registry; quickApply
\* sends each of them exactly one.
C10_ControllersGetSnapshot ==
  [][LET qa == IsMessage(last', "quickApply") /\ role[last'.conn] = "controller"
     IN (players' # players \/ qa) =>
          \A c \in controllers' :
            readyState'[c] = "OPEN" =>
              LET ms == Msgs(sent', c, "players")
              IN /\ ms # {}
                 /\ sent'[c][LastOf(ms)].msg.list = JsonList(getPlayerList(players'))
                 /\ qa => Cardinality(ms) = 1]_vars

C10_Witness ==
  /\ IsMessage(last, "quickApply")
  /\ role[last.conn] = "controller"
  /\ Len(players) = 2
  /\ players[2].config = Config(Num(2), Num(2), Num(2))
  /\ Cardinality({c \in controllers : readyState[c] = "OPEN"}) = 2
  /\ \A c \in controllers : Cardinality(Msgs(sent, c, "players")) = 1

ControllerCommands == {"setConfig", "quickApply", "updateMarquee", "resetStartAt"}

\* The message of the event l comes from a connection whose role r[l.conn] is
\* not the role the message belongs to.
FromWrongRole(l, r) ==
  /\ l.op = "message"
  /\ \/ l.msg.type \in ControllerCommands /\ r[l.conn] = "player"
     \/ l.msg.type = "reportWidth" /\ r[l.conn] = "controller"

\* C11: setConfig, quickApply, updateMarquee and resetStartAt handled on a
\* connection whose role is player, and reportWidth handled on a connection
\* whose role is controller, change no state and send nothing.
C11_OnlyFromOwnRole ==
  [][FromWrongRole(last', role)
       => /\ players' = players
          /\ controllers' = controllers
          /\ startAt' = startAt
          /\ role' = role
          /\ playerId' = playerId
          /\ readyState' = readyState
          /\ sent' = NoSent]_vars

C11_Witness ==
  /\ IsMessage(last, "updateMarquee")
  /\ role[last.conn] = "player"
  /\ Len(players) = 2
  /\ \A i \in DOMAIN players : readyState[players[i].ws] = "OPEN"
  /\ sent = NoSent

\* C12: the tick timer fires again and again, whatever the clients send.
C12_TickFiresRepeatedly == []<>(last.op = "tick")

\* C13: the layout of every registered player has a number screenCount >= 1,
\* a number screenIndex >= 1 and a number offsetPx >= 0.
C13_LayoutWellFormed ==
  \A i \in DOMAIN players :
    LET cfg == players[i].config
    IN /\ IsNum(cfg.screenCount) /\ cfg.screenCount.v >= 1
       /\ IsNum(cfg.screenIndex) /\ cfg.screenIndex.v >= 1
       /\ IsNum(cfg.offsetPx) /\ cfg.offsetPx.v >= 0

\* C14: once the close event of a connection has been handled, no entry of
\* the player registry refers to the connection and the controller set does
\* not contain it.
C14_ClosedConnectionForgotten ==
  [][last'.op = "close"
       => /\ last'.conn \notin controllers'
          /\ \A i \in DOMAIN players' : players'[i].ws # last'.conn]_vars

\* C15: the player whose hello was handled last is the last of the snapshot
\* (every other current registration was handled before it).
C15_SnapshotFollowsRegistrationOrder ==
  [][(IsMessage(last', "hello") /\ last'.msg.role = "player")
       => LET list == getPlayerList(players')
          IN list[Len(list)].playerId = playerId'[last'.conn]]_vars

\* C16: every ws.send call of every handler is made on a transport that is
\* open at the call.
C16_SendsOnlyToOpen ==
  \A c \in Conns : \A i \in DOMAIN sent[c] : sent[c][i].open

\* C17: a setConfig step sends a config message to no connection other than
\* the one registered under the named playerId, and at most one to that; when
\* the playerId is missing or not registered the step changes no entry and
\* sends nothing.
C17_SetConfigTargetsOnePlayer ==
  [][IsMessage(last', "setConfig")
       => LET m == last'.msg
              known == m.playerId # "" /\ Has(players, m.playerId)
          IN /\ \A c \in Conns :
                  Msgs(sent', c, "config") # {}
                    => /\ known
                       /\ c = Get(players, m.playerId).ws
                       /\ Cardinality(Msgs(sent', c, "config")) = 1
             /\ ~known => players' = players /\ sent' = NoSent]_vars

\* A controller's setConfig for the first of two open players reached only it.
C17_Witness ==
  /\ IsMessage(last, "setConfig")
  /\ last.msg.playerId = Pid(1)
  /\ Len(players) = 2
  /\ \A i \in DOMAIN players : readyState[players[i].ws] = "OPEN"
  /\ Cardinality(Msgs(sent, players[1].ws, "config")) = 1
  /\ sent[players[2].ws] = <<>>

\* C18: a payload that is not JSON or is no message object, and a message of
\* an unknown type, change neither the registry, the controller set, the
\* anchor nor the role of the connection, send nothing, and leave the
\* connection open and receiving.
C18_MalformedDiscarded ==
  [][(last'.op = "raw" \/ (last'.op = "message" /\ last'.msg \in UnknownMsgs))
       => /\ players' = players
          /\ controllers' = controllers
          /\ startAt' = startAt
          /\ role' = role
          /\ sent' = NoSent
          /\ readyState'[last'.conn] = readyState[last'.conn]
          /\ last'.conn \in receiving'
          /\ running']_vars

\* C19: a reportWidth step changes no entry whose connection is not the
\* sender, and sends no players message when no entry belongs to the sender.
C19_ReportWidthOnlyOwnEntry ==
  [][IsMessage(last', "reportWidth")
       => /\ \A i \in DOMAIN players :
               players[i].ws # last'.conn => players'[i] = players[i]
          /\ (\A i \in DOMAIN players : players[i].ws # last'.conn)
               => NoPlayersMsg(sent')]_vars

\* The init replies with a layout and the config messages among out[c].
LayoutMsgs(out, c) ==
  {i \in DOMAIN out[c] :
     \/ out[c][i].msg.type = "config"
     \/ out[c][i].msg.type = "init" /\ "config" \in DOMAIN out[c][i].msg}

LayoutOf(m) ==
  IF m.type = "init" THEN m.config
  ELSE Config(m.screenCount, m.screenIndex, m.offsetPx)

\* C20: when a step sends layouts to the open connection of a registry entry,
\* the last of them is the layout stored in the entry after the step.
C20_LastLayoutSentIsStored ==
  [][\A i \in DOMAIN players' :
       LET c == players'[i].ws
           ms == LayoutMsgs(sent', c)
       IN (readyState'[c] = "OPEN" /\ ms # {})
            => LayoutOf(sent'[c][LastOf(ms)].msg) = JsonConfig(players'[i].config)]_vars

====
